---- MODULE Spec2Model ----
(***************************************************************************)
(* Model of the data-fetching demo (ReactBackendExample):                  *)
(*   - the generic hook useAxiosFetch (data / isLoading / error, the       *)
(*     mount effect and refetch), and                                      *)
(*   - the direct fetch variant loadWithFetch of ReactBackendExample.      *)
(* A request is an entry of a request log; the transport may settle the    *)
(* outstanding requests in any order.  The state updates a handler makes   *)
(* synchronously are committed together (React 18 batching, createRoot).   *)
(* The two variants share no state; a behaviour exercises one of them.     *)
(* The same holds for the other demos of the page modelled here: the local *)
(* Counter, the theme context with useTheme, and the form SimpleForm with  *)
(* its parent ReactFormsExample.                                           *)
(***************************************************************************)
EXTENDS Integers, Sequences, FiniteSets, TLC

\* ---------------------------------------------------------------- bounds
\* number of requests one variant issues in a behaviour
MaxAttempts == 3
\* transport calls per behaviour where liveness is checked
MaxLiveAttempts == 2
\* number of clicks on the buttons of the Counter in a behaviour
MaxClicks == 4
\* clicks on the submit button of the form
MaxSubmits == 3
\* calls of toggleTheme
MaxToggles == 3
\* actions dispatched to the Redux store
MaxDispatches == 4
\* segments of a path entered as URL
MaxSegs == 4
\* Links followed
MaxHops == 3

\* ------------------------------------------------------------ value sets
Urls == {"u1", "u2"}
Titles == {"T1", "T2"}
Statuses == {200, 404, 500}
\* the locator of the direct fetch variant
nasaApodUrl == "u1"
\* values of the initialValue prop of Counter; the page passes 0
InitialValues == {0, 3}
\* texts typed into the name input: empty, 1, 2 and 3 characters
Names == {"", "A", "Al", "Bob"}
\* texts typed into the favoriteColor input
Colors == {"", "Rot", "Blau"}
\* keyof SimpleFormData
Fields == {"name", "favoriteColor"}
\* segments of the paths entered as URL: the words of the route table, one of
\* them capitalised, the ids of the books, and a word that is none of these
Segs == {"products", "Products", "books", "react-intro", "react-hooks", "react-routing", "x"}
\* type Theme = "light" | "dark"
Themes == {"light", "dark"}

\* the null of useState<T | null>(null), in the shape of a payload
NoData == [from |-> "none", title |-> "none"]
\* the null of useState<string | null>(null), in the shape of a message
NoError == [text |-> "null", code |-> 0]

\* a parsed response body: the resource found at a locator
Payloads == [from : Urls, title : Titles]

\* what the network does with one axios call: a response with a JSON body,
\* no response, or a rejection with a value that is not an Error
RawOutcomes ==
    [kind : {"response"}, status : Statuses, title : Titles]
      \cup [kind : {"network", "nonError"}, status : {0}, title : {"none"}]

\* what the network does with one fetch call; the body "garbage" is not JSON
RawOutcomesFetch ==
    [kind : {"response"}, status : Statuses, title : Titles \cup {"garbage"}]
      \cup [kind : {"network", "nonError"}, status : {0}, title : {"none"}]

VARIABLES
    variant,      \* the demo the behaviour exercises: "axios", "fetch", "counter" (clicks of a
                  \* user), "batch" (clicks dispatched within one task), "theme", "form",
                  \* "routing"
    budget,       \* the number of transport calls a behaviour may make per variant
    strictMode,   \* <App/> is rendered inside React.StrictMode by a development build
    phase,        \* "created" (rendered, effect not yet run), "mounted", "unmounted"
    url,          \* useAxiosFetch: the url argument
    data,         \* useAxiosFetch: useState data
    isLoading,    \* useAxiosFetch: useState isLoading
    error,        \* useAxiosFetch: useState error
    attempts,     \* useAxiosFetch: log of the axios.get calls, in order of initiation
    lastApplied,  \* useAxiosFetch: the call whose completion last wrote the state (0: none)
    lateApplied,  \* useAxiosFetch: that call was no longer the newest one when it wrote
    retryOf,      \* useAxiosFetch: the call issued by the latest trigger in a Failed state (0: none)
    triggers,     \* useAxiosFetch: number of runs of the effect and of refetch so far
    byPage,       \* useAxiosFetch: so far the hook was driven as the page drives it (fixed url,
                  \* refetch only by a click on the reload button while it is enabled)
    apodFetch,        \* ReactBackendExample: useState apodFetch
    isLoadingFetch,   \* ReactBackendExample: useState isLoadingFetch
    errorFetch,       \* ReactBackendExample: useState errorFetch
    attemptsFetch,    \* ReactBackendExample: log of the fetch calls, in order of initiation
    lastAppliedFetch, \* ReactBackendExample: the call whose completion last wrote the state
    initialValue,     \* Counter: the initialValue prop
    count,            \* Counter: useState count
    rendered,         \* Counter: the count captured by the last render (shown, and closed over by the handlers)
    log,              \* Counter: the values passed to console.log, in order
    nPlus,            \* Counter: clicks on '+1' so far
    nMinus,           \* Counter: clicks on '-1' so far
    theme,            \* ThemeProvider: useState theme
    themeCall,         \* the latest call of useTheme: where it was made and what came of it
    values,       \* SimpleForm: the values of the two inputs held by useForm
    touched,      \* SimpleForm: formState.touchedFields
    isSubmitted,  \* SimpleForm: formState.isSubmitted
    errors,       \* SimpleForm: formState.errors, one message per field ("" : none)
    message,      \* SimpleForm: useState message
    lastSubmittedData, \* ReactFormsExample: useState lastSubmittedData
    formPc,       \* SimpleForm: "idle", or "validating" between the click and the end of handleSubmit
    submits,      \* SimpleForm: number of clicks on 'Senden' so far
    successCalls, \* SimpleForm: number of calls of onSubmitSuccess so far
    toggles,      \* ThemeProvider: number of calls of toggleTheme so far
    value,        \* Redux store: state.value of counterSlice
    deltaSum,     \* Redux store: the sum of +1, -1 and +n over the actions dispatched so far
    dispatched,   \* Redux store: number of actions dispatched so far
    location,     \* BrowserRouter: the path of the current URL
    hops,         \* BrowserRouter: number of Links followed so far
    uniCount      \* ReactComponentsExampleUniDirectional: useState count, given the same clicks
                  \* as the Counter

axiosVars == <<url, data, isLoading, error, attempts, lastApplied, lateApplied, retryOf, triggers,
              byPage>>
fetchVars == <<apodFetch, isLoadingFetch, errorFetch, attemptsFetch, lastAppliedFetch>>
counterVars == <<initialValue, count, rendered, log, nPlus, nMinus, uniCount>>
themeVars == <<theme, themeCall, toggles>>
formVars == <<values, touched, isSubmitted, errors, message, lastSubmittedData,
              formPc, submits, successCalls>>
reduxVars == <<value, deltaSum, dispatched>>
routeVars == <<location, hops>>
demoVars == <<counterVars, themeVars, reduxVars, formVars, routeVars>>
vars == <<variant, budget, strictMode, phase, axiosVars, fetchVars, demoVars>>

\* ------------------------------------------------------------- transport
\* response.ok, and the validateStatus default of axios
IsOk(status) == status >= 200 /\ status <= 299

\* await axios.get<T>(url): response.data of a 2xx response, a rejection otherwise
AxiosGet(u, raw) ==
    IF raw.kind = "response" /\ IsOk(raw.status)
    THEN [ok |-> TRUE, payload |-> [from |-> u, title |-> raw.title], thrown |-> raw]
    ELSE [ok |-> FALSE, payload |-> NoData, thrown |-> raw]

\* err instanceof Error ? err.message : "Unbekannter Fehler"
ErrMessage(thrown) ==
    CASE thrown.kind = "response" -> [text |-> "Request failed with status code", code |-> thrown.status]
      [] thrown.kind = "network"  -> [text |-> "Network Error", code |-> 0]
      [] OTHER                    -> [text |-> "Unbekannter Fehler", code |-> 0]

\* loadWithFetch without the response.ok test: every response body is parsed
FetchJson_noOkTest(raw) ==
    IF raw.kind # "response"
    THEN [ok |-> FALSE, payload |-> NoData, thrown |-> raw]
    ELSE IF raw.title \notin Titles
    THEN [ok |-> FALSE, payload |-> NoData,
          thrown |-> [kind |-> "syntaxError", status |-> 0, title |-> "none"]]
    ELSE [ok |-> TRUE, payload |-> [from |-> nasaApodUrl, title |-> raw.title], thrown |-> raw]

\* the try block of loadWithFetch: await fetch, the response.ok test, await response.json()
FetchJson(raw) ==
    IF raw.kind # "response"
    THEN [ok |-> FALSE, payload |-> NoData, thrown |-> raw]
    ELSE IF ~IsOk(raw.status)
    THEN [ok |-> FALSE, payload |-> NoData,
          thrown |-> [kind |-> "httpError", status |-> raw.status, title |-> "none"]]
    ELSE IF raw.title \notin Titles
    THEN [ok |-> FALSE, payload |-> NoData,
          thrown |-> [kind |-> "syntaxError", status |-> 0, title |-> "none"]]
    ELSE [ok |-> TRUE, payload |-> [from |-> nasaApodUrl, title |-> raw.title], thrown |-> raw]

\* `Fehler beim Laden (fetch): ${message}` with the message of the catch block
ErrMessageFetch(thrown) ==
    CASE thrown.kind = "httpError"   -> [text |-> "Fehler beim Laden (fetch): HTTP-Fehler: ", code |-> thrown.status]
      [] thrown.kind = "syntaxError" -> [text |-> "Fehler beim Laden (fetch): Unexpected token", code |-> 0]
      [] thrown.kind = "network"     -> [text |-> "Fehler beim Laden (fetch): Failed to fetch", code |-> 0]
      [] OTHER                       -> [text |-> "Fehler beim Laden (fetch): Unbekannter Fehler", code |-> 0]

\* ----------------------------------------------------------- request log
\* one call of the transport: its locator, and once settled the status the
\* network answered with (0: no response) and what the handler made of it
NewAttempt(u) ==
    [url |-> u, st |-> "pending", status |-> 0, payload |-> NoData, msg |-> NoError]

\* a catch clause that handles Error objects only and rethrows anything else
Escapes_nonError(thrown) == thrown.kind = "nonError"

\* catch (err) { ... }: the clause takes every thrown value, its body and the
\* finally block throw nothing, so nothing leaves the async function
Escapes(thrown) == FALSE

SettledAttempt(a, raw, r, m) ==
    [a EXCEPT !.st = IF r.ok THEN "ok" ELSE IF Escapes(r.thrown) THEN "threw" ELSE "fail",
              !.status = raw.status,
              !.payload = r.payload,
              !.msg = m]

Pending == {i \in 1..Len(attempts) : attempts[i].st = "pending"}
PendingFetch == {i \in 1..Len(attemptsFetch) : attemptsFetch[i].st = "pending"}

\* ------------------------------------------------- the useState cells
\* a setter that would also write the state of a removed component
setState_unguarded(live, old, new) == new

\* a setter of useState: React drops the update of a component that has been removed
setState(live, old, new) == IF live THEN new ELSE old

\* setIsLoading(true) / setIsLoadingFetch(true) at the head of a request
LoadingOnStart == TRUE

\* a request that starts without setError(null)
ErrorOnStart_stale == error

\* setError(null) / setErrorFetch(null) at the head of a request
ErrorOnStart == NoError

\* a catch block without setData(null)
DataOnSettle_keeps(r, old) == IF r.ok THEN r.payload ELSE old

\* a try block without setData(response.data)
DataOnSettle_drops(r, old) == IF r.ok THEN old ELSE NoData

\* setData(response.data) in the try block, setData(null) in the catch block
DataOnSettle(r, old) == IF r.ok THEN r.payload ELSE NoData

\* a try block that also clears the error
ErrorOnSettle_clears(r, old, m) == IF r.ok THEN NoError ELSE m

\* setError(message) in the catch block; the try block leaves error alone
ErrorOnSettle(r, old, m) == IF r.ok THEN old ELSE m

\* a finally block without setIsLoading(false)
LoadingOnSettle_stuck == TRUE

\* setIsLoading(false) / setIsLoadingFetch(false) in the finally block
LoadingOnSettle == FALSE

\* the lifecycle phase a consumer reads off the three cells
Status(d, l, e) ==
    IF l THEN "Loading"
    ELSE IF e # NoError THEN "Failed"
    ELSE IF d # NoData THEN "Succeeded"
    ELSE "Idle"

\* disabled={isLoadingFetch}, disabled={isLoadingAxios} of the reload buttons
ReloadDisabled(l) == l

\* a section whose card only asks for data
Branches_cardOnData(d, l, e) ==
    (IF l THEN {"loading"} ELSE {})
    \cup (IF e # NoError THEN {"error"} ELSE {})
    \cup (IF d # NoData THEN {"card"} ELSE {})
    \cup (IF ~l /\ e = NoError /\ d = NoData THEN {"hint"} ELSE {})

\* the four conditional blocks of a section of the page: loading text, error
\* text, NasaApodCard, 'Noch keine Daten' hint
Branches(d, l, e) ==
    (IF l THEN {"loading"} ELSE {})
    \cup (IF e # NoError THEN {"error"} ELSE {})
    \cup (IF ~l /\ e = NoError /\ d # NoData THEN {"card"} ELSE {})
    \cup (IF ~l /\ e = NoError /\ d = NoData THEN {"hint"} ELSE {})

\* useEffect callbacks run once at mount, twice under StrictMode in a
\* development build (mount, simulated unmount, mount again)
MountRuns == IF strictMode THEN 2 ELSE 1

\* ------------------------------------------------------- theme context
\* createContext<ThemeContextValue | undefined>(undefined): the default value
Undefined == [theme |-> "undefined", toggleTheme |-> "undefined"]

\* const value = { theme, toggleTheme } handed to ThemeContext.Provider
ProviderValue(t) == [theme |-> t, toggleTheme |-> "function"]

\* useContext(ThemeContext): the value of the nearest provider, else the default
useContext(inside, t) == IF inside THEN ProviderValue(t) ELSE Undefined

\* a useTheme without the guard: hands out whatever the context holds
useTheme_noGuard(ctx) == [threw |-> "no", value |-> ctx]

\* useTheme: if (!ctx) throw new Error(...); return ctx
useTheme(ctx) ==
    IF ctx = Undefined
    THEN [threw |-> "useTheme muss innerhalb von ThemeProvider verwendet werden.",
          value |-> Undefined]
    ELSE [threw |-> "no", value |-> ctx]

\* a toggle that only ever switches to dark
Flip_toDark(prev) == "dark"

\* (prev) => (prev === "light" ? "dark" : "light")
Flip(prev) == IF prev = "light" THEN "dark" ELSE "light"

\* theme === "light" ? styles.themeLight : styles.themeDark
WrapperClass(t) == IF t = "light" THEN "themeLight" ELSE "themeDark"

\* -------------------------------------------------------------- routing
\* a path: its segments, and whether it ends with a slash after the last one
Path(segs) == [segs |-> segs, slash |-> FALSE]

\* the paths a user may enter as URL
EnteredPaths ==
    {[segs |-> s, slash |-> b] :
        s \in UNION {[1..k -> Segs] : k \in 0..MaxSegs}, b \in BOOLEAN}
      \ {[segs |-> <<>>, slash |-> TRUE]}

\* const books: Book[]
books ==
    <<[id |-> "react-intro", title |-> "React Einführung"],
      [id |-> "react-hooks", title |-> "React Hooks"],
      [id |-> "react-routing", title |-> "React Routing"]>>

\* the <Route> elements of <Routes>, in the order of the source; a pattern
\* segment that starts with ':' is a parameter
Routes ==
    <<[pattern |-> <<>>, splat |-> FALSE, element |-> "HomePage"],
      [pattern |-> <<"products">>, splat |-> FALSE, element |-> "ProductsPage"],
      [pattern |-> <<"products", "books">>, splat |-> FALSE, element |-> "BooksPage"],
      [pattern |-> <<"products", "books", ":bookId">>, splat |-> FALSE, element |-> "BookDetailPage"],
      [pattern |-> <<>>, splat |-> TRUE, element |-> "NotFoundPage"]>>

IsParam(seg) == seg = ":bookId"

\* lower case of a segment (react-router matches with the regular
\* expression flag "i" unless caseSensitive is set)
Lower(seg) == IF seg = "Products" THEN "products" ELSE seg

\* react-router's matchPath: segment by segment, static segments without
\* regard to case, a parameter matches any one segment, a trailing slash of
\* the path is ignored, "*" matches everything
matchPath(route, path) ==
    \/ route.splat
    \/ /\ Len(route.pattern) = Len(path.segs)
       /\ \A k \in 1..Len(route.pattern) :
             IsParam(route.pattern[k]) \/ Lower(path.segs[k]) = route.pattern[k]

\* react-router's computeScore: 10 for a static segment, 3 for a parameter,
\* 1 per segment, -2 for the splat
Score(route) ==
    IF route.splat THEN -2
    ELSE Len(route.pattern)
         + 10 * Cardinality({k \in 1..Len(route.pattern) : ~IsParam(route.pattern[k])})
         + 3 * Cardinality({k \in 1..Len(route.pattern) : IsParam(route.pattern[k])})

\* <Routes>: the matching routes of the highest score, the earliest of them
\* in the source being the one rendered
RenderedRoutes(path) ==
    LET matched == {i \in DOMAIN Routes : matchPath(Routes[i], path)}
        best == {i \in matched : \A j \in matched : Score(Routes[j]) <= Score(Routes[i])}
    IN {i \in best : \A j \in best : i <= j}

\* a lookup that takes the first book whatever the id
find_first(bookId) == {books[1]}

\* books.find((b) => b.id === bookId): the book, or nothing
find(bookId) == {books[k] : k \in {k \in DOMAIN books : books[k].id = bookId}}

\* BookDetailPage: useParams, the lookup and the two returns
BookDetailPage(path) ==
    LET bookId == path.segs[3]
        book == find(bookId)
    IN IF book = {}
       THEN [element |-> "BookDetailPage", heading |-> "Buch nicht gefunden"]
       ELSE [element |-> "BookDetailPage", heading |-> (CHOOSE b \in book : TRUE).title]

\* the page elements with their <h2>
Page(element, path) ==
    CASE element = "HomePage"       -> [element |-> element, heading |-> "Startseite"]
      [] element = "ProductsPage"   -> [element |-> element, heading |-> "Produkte"]
      [] element = "BooksPage"      -> [element |-> element, heading |-> "Bücher"]
      [] element = "BookDetailPage" -> BookDetailPage(path)
      [] OTHER                      -> [element |-> "NotFoundPage", heading |-> "Seite nicht gefunden"]

\* what <main> shows for a path: the pages of the rendered routes
Rendered(path) == {Page(Routes[i].element, path) : i \in RenderedRoutes(path)}

\* a book link built from the title
BookLink_byTitle(book) == Path(<<"products", "books", book.title>>)

\* <Link to={`/products/books/${book.id}`}>
BookLink(book) == Path(<<"products", "books", book.id>>)

\* the three Links of <nav>
NavLinks == {Path(<<>>), Path(<<"products">>), Path(<<"products", "books">>)}

\* the Links inside a page
PageLinks(page) ==
    CASE page.element = "ProductsPage"   -> {Path(<<"products", "books">>)}
      [] page.element = "BooksPage"      -> {BookLink(books[k]) : k \in DOMAIN books}
      [] page.element = "BookDetailPage" -> {Path(<<"products", "books">>)}
      [] page.element = "NotFoundPage"   -> {Path(<<>>)}
      [] OTHER                           -> {}

\* the targets of all Links on screen at a path
Links(path) == NavLinks \cup UNION {PageLinks(page) : page \in Rendered(path)}

\* ---------------------------------------------------------- Redux store
\* initialCounterState.value
initialCounterState == 0

\* the actions the buttons of ReduxCounter dispatch: -1, +1, +5
ReduxActions ==
    {[type |-> "counter/decrement", payload |-> 0],
     [type |-> "counter/increment", payload |-> 0],
     [type |-> "counter/incrementBy", payload |-> 5]}

\* state.value += 1
increment(state) == state + 1

\* a decrement that takes two
decrement_byTwo(state) == state - 2

\* state.value -= 1
decrement(state) == state - 1

\* state.value += action.payload
incrementBy(state, payload) == state + payload

\* counterSlice.reducer: the case reducer named by the action's type
reducer(state, action) ==
    CASE action.type = "counter/increment"   -> increment(state)
      [] action.type = "counter/decrement"   -> decrement(state)
      [] action.type = "counter/incrementBy" -> incrementBy(state, action.payload)
      [] OTHER                               -> state

\* the change an action stands for: +1, -1, +n
Delta(action) ==
    CASE action.type = "counter/increment"   -> 1
      [] action.type = "counter/decrement"   -> -1
      [] OTHER                               -> action.payload

\* -------------------------------------------------------------- Counter
\* (prev) => prev + 1
Increment(prev) == prev + 1

\* a '-1' handler that steps from the prop instead of the state
Decrement_fromProp(captured) == initialValue - 1

\* count - 1, with the count of the render that created the handler
Decrement(captured) == captured - 1

\* `Neuer Count-Wert: ${count}`
LogLine(c) == "Neuer Count-Wert: " \o ToString(c)

\* onIncrement: c => c + 1
UniIncrement(c) == c + 1

\* onDecrement: c => c - 1
UniDecrement(c) == c - 1

\* an effect without the dependency on count: it logs at mount only
EffectLog_mountOnly(l, old, new) == l

\* useEffect(() => console.log(`Neuer Count-Wert: ${count}`), [count]) after a
\* render: it runs when count differs from the count of the previous render
EffectLog(l, old, new) == IF new # old THEN Append(l, LogLine(new)) ELSE l

\* ----------------------------------------------------------- SimpleForm
\* errors[field] is undefined
NoFieldError == ""

\* formState.errors is {}
NoErrors == [f \in Fields |-> NoFieldError]

\* useState<SimpleFormData | null>(null)
Null == [some |-> FALSE, name |-> "", favoriteColor |-> ""]

\* defaultValues of useForm
defaultValues == [name |-> "", favoriteColor |-> ""]

\* a name rule without minLength
ValidateName_requiredOnly(v) ==
    IF v = "" THEN "Name ist erforderlich." ELSE NoFieldError

\* register("name", {required, minLength: 2}): the first failing rule reports
ValidateName(v) ==
    IF v = "" THEN "Name ist erforderlich."
    ELSE IF Len(v) < 2 THEN "Name muss mindestens 2 Zeichen lang sein."
    ELSE NoFieldError

\* register("favoriteColor", {required})
ValidateColor(v) ==
    IF v = "" THEN "Lieblingsfarbe ist erforderlich." ELSE NoFieldError

\* the built-in validation of one field
Validate(f, v) == IF f = "name" THEN ValidateName(v) ELSE ValidateColor(v)

\* a handleSubmit that takes every form for valid
IsValid_always(errs) == TRUE

\* handleSubmit: isEmptyObject(errors) decides between onValid and onInvalid
IsValid(errs) == errs = NoErrors

\* a parent that ignores the data handed up
handleSubmitSuccess_ignores(d) == lastSubmittedData

\* handleSubmitSuccess: setLastSubmittedData(data)
handleSubmitSuccess(d) == [some |-> TRUE, name |-> d.name, favoriteColor |-> d.favoriteColor]

\* an onInvalidSubmit that leaves the message alone
onInvalidSubmit_silent(msg) == msg

\* onInvalidSubmit: setMessage(...)
onInvalidSubmit(msg) == "Bitte korrigieren Sie die markierten Felder."

\* validation of a change or blur event is skipped unless: before the first
\* submit (mode "onTouched") the field is touched or the event is a blur; after
\* it (reValidateMode "onChange") the event is a change
Revalidates(f, isBlur) ==
    IF isSubmitted THEN ~isBlur ELSE (f \in touched \/ isBlur)

\* the state after the first render, for behaviours of at most b transport calls
InitWith(b) ==
    /\ budget = b
    /\ variant \in {"axios", "fetch", "counter", "batch", "theme", "form", "routing"}
    /\ values = defaultValues
    /\ touched = {}
    /\ isSubmitted = FALSE
    /\ errors = NoErrors
    /\ message = ""
    /\ lastSubmittedData = Null
    /\ formPc = "idle"
    /\ submits = 0
    /\ successCalls = 0
    /\ initialValue \in (IF variant = "counter" THEN InitialValues ELSE {0})
    /\ count = initialValue
    /\ rendered = initialValue
    /\ log = <<>>
    /\ nPlus = 0
    /\ nMinus = 0
    /\ uniCount = 0
    /\ theme = "light"
    /\ location \in (IF variant = "routing" THEN EnteredPaths ELSE {Path(<<>>)})
    /\ hops = 0
    /\ toggles = 0
    /\ value = initialCounterState
    /\ deltaSum = 0
    /\ dispatched = 0
    /\ themeCall = [made |-> FALSE, inside |-> FALSE, res |-> [threw |-> "no", value |-> Undefined]]
    /\ strictMode \in BOOLEAN
    /\ phase = "created"
    /\ url = nasaApodUrl
    /\ data = NoData
    /\ isLoading = FALSE
    /\ error = NoError
    /\ attempts = <<>>
    /\ lastApplied = 0
    /\ lateApplied = FALSE
    /\ retryOf = 0
    /\ triggers = 0
    /\ byPage = TRUE
    /\ apodFetch = NoData
    /\ isLoadingFetch = FALSE
    /\ errorFetch = NoError
    /\ attemptsFetch = <<>>
    /\ lastAppliedFetch = 0

Init == InitWith(MaxAttempts)

\* ------------------------------------------------------- useAxiosFetch
\* a fetchData that calls the transport twice
fetchData_twice(u) ==
    /\ isLoading' = LoadingOnStart
    /\ error' = ErrorOnStart
    /\ attempts' = Append(Append(attempts, NewAttempt(u)), NewAttempt(u))
    /\ retryOf' = IF Status(data, isLoading, error) = "Failed"
                  THEN Len(attempts) + 1 ELSE retryOf
    /\ triggers' = triggers + 1
    /\ UNCHANGED data

\* fetchData up to its await: setIsLoading(true); setError(null); axios.get(url)
fetchData(u) ==
    /\ isLoading' = LoadingOnStart
    /\ error' = ErrorOnStart
    /\ attempts' = Append(attempts, NewAttempt(u))
    /\ retryOf' = IF Status(data, isLoading, error) = "Failed"
                  THEN Len(attempts) + 1 ELSE retryOf
    /\ triggers' = triggers + 1
    /\ UNCHANGED data

\* the effect of the hook at mount; StrictMode runs it a second time right away
useEffectAxios ==
    /\ variant = "axios"
    /\ phase = "created"
    /\ phase' = "mounted"
    /\ isLoading' = LoadingOnStart
    /\ error' = ErrorOnStart
    /\ attempts' = IF strictMode
                   THEN <<NewAttempt(url), NewAttempt(url)>>
                   ELSE <<NewAttempt(url)>>
    /\ triggers' = IF strictMode THEN 2 ELSE 1
    /\ UNCHANGED <<variant, budget, strictMode, url, data, lastApplied, lateApplied, retryOf, byPage,
                   fetchVars, demoVars>>

\* refetch: the consumer calls the returned fetchData; the hook accepts the
\* call in any state
refetch ==
    /\ variant = "axios"
    /\ phase = "mounted"
    /\ Len(attempts) < budget
    /\ fetchData(url)
    /\ byPage' = (byPage /\ ~ReloadDisabled(isLoading))
    /\ UNCHANGED <<variant, budget, strictMode, phase, url, lastApplied, lateApplied, fetchVars, demoVars>>

\* the consumer renders the hook with another url: useCallback re-creates
\* fetchData and the effect that depends on it runs again
UrlChange(u) ==
    /\ variant = "axios"
    /\ phase = "mounted"
    /\ u # url
    /\ Len(attempts) < budget
    /\ url' = u
    /\ fetchData(u)
    /\ byPage' = FALSE
    /\ UNCHANGED <<variant, budget, strictMode, phase, lastApplied, lateApplied, fetchVars, demoVars>>

\* fetchData after its await: the rest of try, or catch, then finally
fetchDataSettle(i, raw) ==
    /\ variant = "axios"
    /\ i \in Pending
    /\ LET r == AxiosGet(attempts[i].url, raw)
           m == IF r.ok THEN NoError ELSE ErrMessage(r.thrown)
           live == phase = "mounted"
       IN /\ attempts' = [attempts EXCEPT ![i] = SettledAttempt(@, raw, r, m)]
          /\ data' = setState(live, data, DataOnSettle(r, data))
          /\ error' = setState(live, error, ErrorOnSettle(r, error, m))
          /\ isLoading' = setState(live, isLoading, LoadingOnSettle)
          /\ lastApplied' = IF live THEN i ELSE lastApplied
          /\ lateApplied' = IF live THEN i < Len(attempts) ELSE lateApplied
    /\ UNCHANGED <<variant, budget, strictMode, phase, url, retryOf, triggers, byPage, fetchVars, demoVars>>

\* ------------------------------------------- ReactBackendExample, fetch
\* loadWithFetch up to its await: setIsLoadingFetch(true); setErrorFetch(null); fetch(nasaApodUrl)
loadWithFetch ==
    /\ isLoadingFetch' = LoadingOnStart
    /\ errorFetch' = ErrorOnStart
    /\ attemptsFetch' = Append(attemptsFetch, NewAttempt(nasaApodUrl))
    /\ UNCHANGED apodFetch

\* useEffect(() => { loadWithFetch(); }, []); StrictMode runs it a second time
useEffectFetch ==
    /\ variant = "fetch"
    /\ phase = "created"
    /\ phase' = "mounted"
    /\ isLoadingFetch' = LoadingOnStart
    /\ errorFetch' = ErrorOnStart
    /\ attemptsFetch' = IF strictMode
                        THEN <<NewAttempt(nasaApodUrl), NewAttempt(nasaApodUrl)>>
                        ELSE <<NewAttempt(nasaApodUrl)>>
    /\ UNCHANGED <<variant, budget, strictMode, apodFetch, lastAppliedFetch, axiosVars, demoVars>>

\* the reload button: onClick={loadWithFetch}, disabled={isLoadingFetch}
reloadFetch ==
    /\ variant = "fetch"
    /\ phase = "mounted"
    /\ ~ReloadDisabled(isLoadingFetch)
    /\ Len(attemptsFetch) < budget
    /\ loadWithFetch
    /\ UNCHANGED <<variant, budget, strictMode, phase, lastAppliedFetch, axiosVars, demoVars>>

\* loadWithFetch after await fetch(...): the rest of try, or catch, then finally
loadWithFetchSettle(i, raw) ==
    /\ variant = "fetch"
    /\ i \in PendingFetch
    /\ LET r == FetchJson(raw)
           m == IF r.ok THEN NoError ELSE ErrMessageFetch(r.thrown)
           live == phase = "mounted"
       IN /\ attemptsFetch' = [attemptsFetch EXCEPT ![i] = SettledAttempt(@, raw, r, m)]
          /\ apodFetch' = setState(live, apodFetch, DataOnSettle(r, apodFetch))
          /\ errorFetch' = setState(live, errorFetch, ErrorOnSettle(r, errorFetch, m))
          /\ isLoadingFetch' = setState(live, isLoadingFetch, LoadingOnSettle)
          /\ lastAppliedFetch' = IF live THEN i ELSE lastAppliedFetch
    /\ UNCHANGED <<variant, budget, strictMode, phase, axiosVars, demoVars>>

\* -------------------------------------------------------------- Counter
\* the effect of Counter at mount: it logs the initial count
useEffectCounter ==
    /\ variant \in {"counter", "batch"}
    /\ phase = "created"
    /\ phase' = "mounted"
    /\ log' = [k \in 1..MountRuns |-> LogLine(rendered)]
    /\ UNCHANGED <<variant, budget, strictMode, axiosVars, fetchVars, themeVars, reduxVars, formVars, routeVars,
                   initialValue, count, rendered, nPlus, nMinus, uniCount>>

\* onClick of '+1': setCount((prev) => prev + 1), then render and effect
ClickPlus ==
    /\ variant = "counter"
    /\ phase = "mounted"
    /\ nPlus + nMinus < MaxClicks
    /\ count' = Increment(count)
    /\ rendered' = count'
    /\ log' = EffectLog(log, rendered, count')
    /\ nPlus' = nPlus + 1
    /\ uniCount' = UniIncrement(uniCount)
    /\ UNCHANGED <<variant, budget, strictMode, phase, axiosVars, fetchVars, themeVars, reduxVars, formVars, routeVars,
                   initialValue, nMinus>>

\* onClick of '-1': setCount(count - 1), then render and effect
ClickMinus ==
    /\ variant = "counter"
    /\ phase = "mounted"
    /\ nPlus + nMinus < MaxClicks
    /\ count' = Decrement(rendered)
    /\ rendered' = count'
    /\ log' = EffectLog(log, rendered, count')
    /\ nMinus' = nMinus + 1
    /\ uniCount' = UniDecrement(uniCount)
    /\ UNCHANGED <<variant, budget, strictMode, phase, axiosVars, fetchVars, themeVars, reduxVars, formVars, routeVars,
                   initialValue, nPlus>>

\* the '+1' handlers of both counters run; React has not rendered yet
HandlePlus ==
    /\ variant = "batch"
    /\ phase = "mounted"
    /\ nPlus + nMinus < MaxClicks
    /\ count' = Increment(count)
    /\ uniCount' = UniIncrement(uniCount)
    /\ nPlus' = nPlus + 1
    /\ UNCHANGED <<variant, budget, strictMode, phase, axiosVars, fetchVars, themeVars, reduxVars, formVars, routeVars,
                   initialValue, rendered, log, nMinus>>

\* the '-1' handlers of both counters run; the Counter's handler is the one
\* created by the latest render and writes that render's count - 1
HandleMinus ==
    /\ variant = "batch"
    /\ phase = "mounted"
    /\ nPlus + nMinus < MaxClicks
    /\ count' = Decrement(rendered)
    /\ uniCount' = UniDecrement(uniCount)
    /\ nMinus' = nMinus + 1
    /\ UNCHANGED <<variant, budget, strictMode, phase, axiosVars, fetchVars, themeVars, reduxVars, formVars, routeVars,
                   initialValue, rendered, log, nPlus>>

\* React renders the queued updates; the effect runs if count has changed
Render ==
    /\ variant = "batch"
    /\ phase = "mounted"
    /\ rendered # count
    /\ rendered' = count
    /\ log' = EffectLog(log, rendered, count)
    /\ UNCHANGED <<variant, budget, strictMode, phase, axiosVars, fetchVars, themeVars, reduxVars, formVars, routeVars,
                   initialValue, count, nPlus, nMinus, uniCount>>

\* ------------------------------------------------------- theme context
\* a toggle that also puts the store back to its initial state
toggleTheme_resetsStore ==
    /\ variant = "theme"
    /\ toggles < MaxToggles
    /\ theme' = Flip(theme)
    /\ toggles' = toggles + 1
    /\ value' = initialCounterState
    /\ UNCHANGED <<variant, budget, strictMode, phase, axiosVars, fetchVars, counterVars, formVars, routeVars,
                   themeCall, deltaSum, dispatched>>

\* onClick of 'Theme wechseln': toggleTheme of the provider
toggleTheme ==
    /\ variant = "theme"
    /\ toggles < MaxToggles
    /\ theme' = Flip(theme)
    /\ toggles' = toggles + 1
    /\ UNCHANGED <<variant, budget, strictMode, phase, axiosVars, fetchVars, counterVars, formVars, routeVars,
                   reduxVars, themeCall>>

\* a component calls useTheme while rendering, below a ThemeProvider or not
RenderWithTheme(inside) ==
    /\ variant = "theme"
    /\ themeCall' = [made |-> TRUE, inside |-> inside,
                     res |-> useTheme(useContext(inside, theme))]
    /\ UNCHANGED <<variant, budget, strictMode, phase, axiosVars, fetchVars, counterVars, formVars, routeVars,
                   reduxVars, theme, toggles>>

\* ---------------------------------------------------------- Redux store
\* onClick of '-1', '+1', '+5' in ReduxCounter: dispatch(action)
dispatch(action) ==
    /\ variant = "theme"
    /\ dispatched < MaxDispatches
    /\ value' = reducer(value, action)
    /\ deltaSum' = deltaSum + Delta(action)
    /\ dispatched' = dispatched + 1
    /\ UNCHANGED <<variant, budget, strictMode, phase, axiosVars, fetchVars, counterVars, formVars, routeVars,
                   themeVars>>

\* -------------------------------------------------------------- routing
\* a click on a Link: client-side navigation to its target
FollowLink(target) ==
    /\ variant = "routing"
    /\ hops < MaxHops
    /\ target \in Links(location)
    /\ location' = target
    /\ hops' = hops + 1
    /\ UNCHANGED <<variant, budget, strictMode, phase, axiosVars, fetchVars, counterVars,
                   themeVars, reduxVars, formVars>>

\* ----------------------------------------------------------- SimpleForm
FormUnchanged == <<variant, budget, strictMode, phase, axiosVars, fetchVars, counterVars,
                   themeVars, reduxVars, routeVars>>

\* the user types v into the input of field f
ChangeField(f, v) ==
    /\ variant = "form"
    /\ formPc = "idle"
    /\ values' = [values EXCEPT ![f] = v]
    /\ errors' = IF Revalidates(f, FALSE) THEN [errors EXCEPT ![f] = Validate(f, v)] ELSE errors
    /\ UNCHANGED <<touched, isSubmitted, message, lastSubmittedData, formPc, submits,
                   successCalls, FormUnchanged>>

\* the input of field f loses the focus
BlurField(f) ==
    /\ variant = "form"
    /\ formPc = "idle"
    /\ touched' = touched \cup {f}
    /\ errors' = IF Revalidates(f, TRUE) THEN [errors EXCEPT ![f] = Validate(f, values[f])] ELSE errors
    /\ UNCHANGED <<values, isSubmitted, message, lastSubmittedData, formPc, submits,
                   successCalls, FormUnchanged>>

\* a click handler that sets no message
handleClickSubmitButton_silent ==
    /\ variant = "form"
    /\ formPc = "idle"
    /\ submits < MaxSubmits
    /\ formPc' = "validating"
    /\ submits' = submits + 1
    /\ UNCHANGED <<values, touched, isSubmitted, errors, message, lastSubmittedData,
                   successCalls, FormUnchanged>>

\* onClick of 'Senden': the message is set before handleSubmit validates
handleClickSubmitButton ==
    /\ variant = "form"
    /\ formPc = "idle"
    /\ submits < MaxSubmits
    /\ message' = "Absenden wurde geklickt. Eingaben werden geprüft..."
    /\ formPc' = "validating"
    /\ submits' = submits + 1
    /\ UNCHANGED <<values, touched, isSubmitted, errors, lastSubmittedData, successCalls,
                   FormUnchanged>>

\* handleSubmit(onValidSubmit, onInvalidSubmit): validates every field, then
\* calls onValidSubmit with the values or onInvalidSubmit
handleSubmit ==
    /\ variant = "form"
    /\ formPc = "validating"
    /\ errors' = [f \in Fields |-> Validate(f, values[f])]
    /\ isSubmitted' = TRUE
    /\ formPc' = "idle"
    /\ IF IsValid(errors')
       THEN /\ message' = "Formular erfolgreich gesendet!"
            /\ lastSubmittedData' = handleSubmitSuccess(values)
            /\ successCalls' = successCalls + 1
       ELSE /\ message' = onInvalidSubmit(message)
            /\ UNCHANGED <<lastSubmittedData, successCalls>>
    /\ UNCHANGED <<values, touched, submits, FormUnchanged>>

\* ------------------------------------------------------------ lifecycle
\* ReactBackendExample is removed from the tree
Unmount ==
    /\ phase = "mounted"
    /\ phase' = "unmounted"
    /\ UNCHANGED <<variant, budget, strictMode, axiosVars, fetchVars, demoVars>>

Next ==
    \/ useEffectAxios
    \/ refetch
    \/ \E u \in Urls : UrlChange(u)
    \/ \E i \in 1..MaxAttempts, raw \in RawOutcomes : fetchDataSettle(i, raw)
    \/ useEffectFetch
    \/ reloadFetch
    \/ \E i \in 1..MaxAttempts, raw \in RawOutcomesFetch : loadWithFetchSettle(i, raw)
    \/ useEffectCounter
    \/ ClickPlus
    \/ ClickMinus
    \/ HandlePlus
    \/ HandleMinus
    \/ Render
    \/ toggleTheme
    \/ \E inside \in BOOLEAN : RenderWithTheme(inside)
    \/ \E action \in ReduxActions : dispatch(action)
    \/ \E target \in Links(location) : FollowLink(target)
    \/ \E v \in Names : ChangeField("name", v)
    \/ \E v \in Colors : ChangeField("favoriteColor", v)
    \/ \E f \in Fields : BlurField(f)
    \/ handleClickSubmitButton
    \/ handleSubmit
    \/ Unmount

Spec == Init /\ [][Next]_vars

\* every transport call eventually resolves or rejects
TransportSettles ==
    /\ WF_vars(\E i \in 1..MaxAttempts : \E raw \in RawOutcomes : fetchDataSettle(i, raw))
    /\ WF_vars(\E i \in 1..MaxAttempts : \E raw \in RawOutcomesFetch : loadWithFetchSettle(i, raw))

LiveInit == InitWith(MaxLiveAttempts)

LiveSpec == LiveInit /\ [][Next]_vars /\ TransportSettles

TypeOK ==
    /\ variant \in {"axios", "fetch", "counter", "batch", "theme", "form", "routing"}
    /\ values \in [name : Names, favoriteColor : Colors]
    /\ touched \subseteq Fields
    /\ isSubmitted \in BOOLEAN
    /\ DOMAIN errors = Fields
    /\ lastSubmittedData \in [some : BOOLEAN, name : Names, favoriteColor : Colors]
    /\ formPc \in {"idle", "validating"}
    /\ submits \in 0..MaxSubmits
    /\ successCalls \in 0..MaxSubmits
    /\ initialValue \in InitialValues
    /\ count \in Int
    /\ rendered \in Int
    /\ nPlus \in 0..MaxClicks
    /\ nMinus \in 0..MaxClicks
    /\ uniCount \in Int
    /\ toggles \in 0..MaxToggles
    /\ hops \in 0..MaxHops
    /\ location \in EnteredPaths
    /\ value \in Int
    /\ deltaSum \in Int
    /\ dispatched \in 0..MaxDispatches
    /\ log \in Seq(STRING)
    /\ Len(log) <= 2 + MaxClicks
    /\ theme \in Themes
    /\ strictMode \in BOOLEAN
    /\ phase \in {"created", "mounted", "unmounted"}
    /\ url \in Urls
    /\ data \in Payloads \cup {NoData}
    /\ apodFetch \in Payloads \cup {NoData}
    /\ isLoading \in BOOLEAN
    /\ isLoadingFetch \in BOOLEAN
    /\ budget \in {MaxAttempts, MaxLiveAttempts}
    /\ Len(attempts) <= budget
    /\ Len(attemptsFetch) <= budget
    /\ lastApplied \in 0..Len(attempts)
    /\ lastAppliedFetch \in 0..Len(attemptsFetch)
    /\ lateApplied \in BOOLEAN
    /\ retryOf \in 0..Len(attempts)
    /\ triggers \in 0..MaxAttempts
    /\ byPage \in BOOLEAN

\* ------------------------------------------------- observations
\* a step in which a pending call of the hook settles
SettlesAxios(i) == i \in Pending /\ attempts'[i].st # "pending"
\* a step in which a pending call of loadWithFetch settles
SettlesFetch(i) == i \in PendingFetch /\ attemptsFetch'[i].st # "pending"

\* ------------------------------------------------------------------ C1
\* C1: whenever a completion has been applied to the state of useAxiosFetch,
\* it was the completion of the newest call at that moment, and the hook is
\* either loading or shows the outcome of the most recently initiated call.
C1_OnlyNewestApplied ==
    lastApplied # 0 =>
        /\ ~lateApplied
        /\ (isLoading \/ lastApplied = Len(attempts))

\* ------------------------------------------------------------------ C2
\* calls A (first) and B (second) were both issued before either settled,
\* B settled first and A second, and nothing else was issued
BThenA ==
    /\ variant = "axios"
    /\ phase = "mounted"
    /\ Len(attempts) = 2
    /\ Pending = {}
    /\ lastApplied = 1

C3_LateLocatorDiscarded ==
    [][\A i \in 1..MaxAttempts :
         (phase = "mounted" /\ SettlesAxios(i) /\ attempts[i].url # url)
            => (data' = data /\ error' = error)]_vars

C5_ValueXorError ==
    /\ ~(data # NoData /\ error # NoError)
    /\ (error # NoError => Status(data, isLoading, error) = "Failed")

C7_StartSetsLoading ==
    [][/\ Len(attempts') > Len(attempts) => (isLoading' /\ error' = NoError)
       /\ Len(attemptsFetch') > Len(attemptsFetch)
             => (isLoadingFetch' /\ errorFetch' = NoError)]_vars

\* a call failed and showed its error, then a retrigger cleared it
C7_Witness ==
    /\ variant = "axios"
    /\ phase = "mounted"
    /\ Len(attempts) = 2
    /\ attempts[1].st = "fail"
    /\ lastApplied = 1
    /\ ~lateApplied
    /\ attempts[2].st = "pending"
    /\ Status(data, isLoading, error) = "Loading"
    /\ error = NoError

\* ------------------------------------------------------------------ C8
\* C8: while the component is mounted, a set loading flag implies that the
\* most recently initiated call of that variant is still outstanding.
C8_LoadingImpliesOutstanding ==
    phase = "mounted" =>
        /\ isLoading => (Len(attempts) > 0 /\ Len(attempts) \in Pending)
        /\ isLoadingFetch => (Len(attemptsFetch) > 0 /\ Len(attemptsFetch) \in PendingFetch)

\* loading again after an earlier call has settled
C8_Witness ==
    /\ variant = "axios"
    /\ phase = "mounted"
    /\ isLoading
    /\ Len(attempts) = 2
    /\ lastApplied = 1
    /\ Pending = {2}

\* ------------------------------------------------------------------ C9
\* C9: after a single start whose call resolves with payload P, and no other
\* trigger, the hook shows exactly value P of the requested locator, not
\* loading, no error.
C9_RoundTrip ==
    (variant = "axios" /\ Len(attempts) = 1 /\ attempts[1].st = "ok" /\ lastApplied = 1) =>
        /\ data = attempts[1].payload
        /\ data \in Payloads
        /\ data.from = attempts[1].url
        /\ Status(data, isLoading, error) = "Succeeded"
        /\ error = NoError

C9_Witness ==
    /\ variant = "axios"
    /\ ~strictMode
    /\ Len(attempts) = 1
    /\ lastApplied = 1
    /\ attempts[1].status = 200
    /\ data = [from |-> url, title |-> "T1"]
    /\ ~isLoading
    /\ error = NoError

\* ----------------------------------------------------------------- C10
\* a response was received and its status is not 2xx
NonOkResponse(a) == a.st # "pending" /\ a.status # 0 /\ ~IsOk(a.status)

\* C10: a call answered with a non-2xx status is recorded as failed with an
\* error that carries the status code, never as a success; while its
\* outcome is the one shown, the variant is Failed with that error and the
\* value is absent.
C10_StatusErrorNotSuccess ==
    /\ \A i \in 1..Len(attemptsFetch) :
          NonOkResponse(attemptsFetch[i]) =>
             /\ attemptsFetch[i].st = "fail"
             /\ attemptsFetch[i].msg.code = attemptsFetch[i].status
             /\ (lastAppliedFetch = i /\ ~isLoadingFetch) =>
                   /\ Status(apodFetch, isLoadingFetch, errorFetch) = "Failed"
                   /\ errorFetch.code = attemptsFetch[i].status
                   /\ apodFetch = NoData
    /\ \A i \in 1..Len(attempts) :
          NonOkResponse(attempts[i]) =>
             /\ attempts[i].st = "fail"
             /\ attempts[i].msg.code = attempts[i].status
             /\ (lastApplied = i /\ ~isLoading) =>
                   /\ Status(data, isLoading, error) = "Failed"
                   /\ error.code = attempts[i].status
                   /\ data = NoData

\* the first call of loadWithFetch was answered with 404
C10_Witness ==
    /\ variant = "fetch"
    /\ Len(attemptsFetch) = 1
    /\ attemptsFetch[1].status = 404
    /\ lastAppliedFetch = 1
    /\ Status(apodFetch, isLoadingFetch, errorFetch) = "Failed"
    /\ errorFetch.code = 404
    /\ apodFetch = NoData

\* ----------------------------------------------------------------- C11
\* C11: in every Failed state of the mounted hook a retrigger is accepted
\* and leaves the hook Loading, and when the call issued by that retrigger
\* resolves, the hook is Succeeded with the new payload and no error.
C11_RetryRecovers ==
    [][/\ (variant = "axios" /\ phase = "mounted" /\ Len(attempts) < budget
              /\ Status(data, isLoading, error) = "Failed")
            => ENABLED refetch
       /\ (Status(data, isLoading, error) = "Failed" /\ Len(attempts') > Len(attempts))
            => Status(data', isLoading', error') = "Loading"
       /\ \A i \in 1..MaxAttempts :
             (phase = "mounted" /\ SettlesAxios(i) /\ i = retryOf /\ attempts'[i].st = "ok")
                => /\ Status(data', isLoading', error') = "Succeeded"
                   /\ data' = attempts'[i].payload
                   /\ error' = NoError]_vars

\* ----------------------------------------------------------------- C12
\* C12: whatever the transport fails with, the request ends as a caught
\* failure, never as a rejection of fetchData / loadWithFetch, and the
\* failure is shown through the error cell.
C12_FailuresCaught ==
    [][\A i \in 1..MaxAttempts :
         /\ SettlesAxios(i) =>
               /\ attempts'[i].st \in {"ok", "fail"}
               /\ (attempts'[i].st = "fail" /\ phase = "mounted")
                     => (error' = attempts'[i].msg /\ error' # NoError)
         /\ SettlesFetch(i) =>
               /\ attemptsFetch'[i].st \in {"ok", "fail"}
               /\ (attemptsFetch'[i].st = "fail" /\ phase = "mounted")
                     => (errorFetch' = attemptsFetch'[i].msg /\ errorFetch' # NoError)]_vars

\* the transport rejected with a value that is not an Error object
C12_Witness ==
    /\ variant = "axios"
    /\ Len(attempts) = 1
    /\ lastApplied = 1
    /\ attempts[1].st = "fail"
    /\ attempts[1].msg.text = "Unbekannter Fehler"
    /\ error = attempts[1].msg
    /\ ~isLoading

\* ----------------------------------------------------------------- C13
\* C13: the number of axios.get calls issued equals the number of triggers
\* (runs of the effect at mount or after a url change, and calls of
\* refetch); in particular no completion, failed or not, issues a call.
C13_OneCallPerTrigger ==
    /\ Len(attempts) = triggers
    /\ (phase = "created" => triggers = 0)

\* mount, a failure, a retrigger and a locator change
C13_Witness ==
    /\ variant = "axios"
    /\ ~strictMode
    /\ triggers = 3
    /\ Len(attempts) = 3
    /\ attempts[1].st = "fail"
    /\ attempts[3].url # attempts[1].url
    /\ Pending = {}

\* C14: a call of useTheme outside a ThemeProvider throws the configuration
\* error and returns nothing; a call inside returns the provider's value, whose
\* theme is "light" or "dark" (the current one) and whose toggleTheme is a
\* function; no call returns the undefined default
C14_UseThemeGuard ==
    themeCall.made =>
        /\ ~themeCall.inside =>
              themeCall.res.threw = "useTheme muss innerhalb von ThemeProvider verwendet werden."
        /\ themeCall.inside =>
              /\ themeCall.res.threw = "no"
              /\ themeCall.res.value.theme \in Themes
              /\ themeCall.res.value.toggleTheme = "function"
        /\ themeCall.res.threw = "no" => themeCall.res.value # Undefined

\* a call outside a provider has thrown, after the theme had been toggled
C14_Witness ==
    /\ themeCall.made
    /\ ~themeCall.inside
    /\ themeCall.res.threw # "no"
    /\ theme = "dark"

C17_LastSubmittedValid ==
    /\ [](\/ lastSubmittedData = Null
          \/ /\ lastSubmittedData.some
             /\ Len(lastSubmittedData.name) >= 2
             /\ lastSubmittedData.favoriteColor # "")
    /\ [](submits = 0 => lastSubmittedData = Null)
    /\ [][lastSubmittedData' # lastSubmittedData
            => /\ formPc = "validating" /\ formPc' = "idle"
               /\ Len(values.name) >= 2
               /\ values.favoriteColor # ""]_vars

\* valid data was sent, then the inputs were emptied and sent again in vain
C17_Witness ==
    /\ lastSubmittedData = [some |-> TRUE, name |-> "Al", favoriteColor |-> "Rot"]
    /\ values = defaultValues
    /\ submits = 2
    /\ formPc = "idle"

\* the step of handleSubmit that ends a submit
SubmitEnds == formPc = "validating" /\ formPc' = "idle"

\* C18: a submit with a name of at least 2 characters and a non-empty
\* favoriteColor ends with the message 'Formular erfolgreich gesendet!', no
\* field error, and lastSubmittedData equal to the submitted name and color
C18_ValidSubmit ==
    [][(SubmitEnds /\ Len(values.name) >= 2 /\ values.favoriteColor # "")
         => /\ message' = "Formular erfolgreich gesendet!"
            /\ \A f \in Fields : errors'[f] = NoFieldError
            /\ lastSubmittedData'.some
            /\ lastSubmittedData'.name = values.name
            /\ lastSubmittedData'.favoriteColor = values.favoriteColor]_vars

\* a second valid submit, made after the fields had shown errors, has replaced
\* the data of the first one
C18_Witness ==
    /\ message = "Formular erfolgreich gesendet!"
    /\ successCalls = 2
    /\ lastSubmittedData = [some |-> TRUE, name |-> "Bob", favoriteColor |-> "Blau"]
    /\ touched = Fields
    /\ errors = NoErrors

\* C19: a submit with an invalid field ends with the message 'Bitte korrigieren
\* Sie die markierten Felder.', without a call of onSubmitSuccess and with
\* lastSubmittedData unchanged
C19_InvalidSubmit ==
    [][(SubmitEnds /\ (Len(values.name) < 2 \/ values.favoriteColor = ""))
         => /\ message' = "Bitte korrigieren Sie die markierten Felder."
            /\ successCalls' = successCalls
            /\ lastSubmittedData' = lastSubmittedData]_vars

\* an invalid submit after a valid one: the earlier data is still there
C19_Witness ==
    /\ message = "Bitte korrigieren Sie die markierten Felder."
    /\ submits = 2
    /\ successCalls = 1
    /\ lastSubmittedData.some
    /\ values.name = "A"
    /\ values.favoriteColor = lastSubmittedData.favoriteColor

\* C20: at the end of a submit the name shows 'Name ist erforderlich.' if
\* empty, 'Name muss mindestens 2 Zeichen lang sein.' if 1 character long and
\* nothing if longer; favoriteColor shows 'Lieblingsfarbe ist erforderlich.'
\* if empty and nothing otherwise, whatever the name is
C20_FieldErrors ==
    [][SubmitEnds
         => /\ values.name = "" => errors'.name = "Name ist erforderlich."
            /\ Len(values.name) = 1
                  => errors'.name = "Name muss mindestens 2 Zeichen lang sein."
            /\ Len(values.name) >= 2 => errors'.name = NoFieldError
            /\ values.favoriteColor = ""
                  => errors'.favoriteColor = "Lieblingsfarbe ist erforderlich."
            /\ values.favoriteColor # "" => errors'.favoriteColor = NoFieldError]_vars

\* a submit has left the minLength error on the name and no error on the color
C20_Witness ==
    /\ isSubmitted
    /\ formPc = "idle"
    /\ values = [name |-> "A", favoriteColor |-> "Rot"]
    /\ errors = [name |-> "Name muss mindestens 2 Zeichen lang sein.",
                 favoriteColor |-> NoFieldError]
    /\ message = "Bitte korrigieren Sie die markierten Felder."

\* the click on 'Senden' that starts a submit
SubmitStarts == formPc = "idle" /\ formPc' = "validating"

\* C21: the click on 'Senden' sets the message 'Absenden wurde geklickt.
\* Eingaben werden geprüft...', which stays until handleSubmit, then always
\* possible, replaces it by the success or the correction message; once a
\* submit has been handled the message is never the interim one and never empty
C21_InterimThenOutcome ==
    [][/\ SubmitStarts => message' = "Absenden wurde geklickt. Eingaben werden geprüft..."
       /\ formPc = "validating"
             => /\ message = "Absenden wurde geklickt. Eingaben werden geprüft..."
                /\ ENABLED handleSubmit
       /\ SubmitEnds => message' \in {"Formular erfolgreich gesendet!",
                                       "Bitte korrigieren Sie die markierten Felder."}
       /\ (formPc' = "idle" /\ submits' > 0)
             => message' \in {"Formular erfolgreich gesendet!",
                              "Bitte korrigieren Sie die markierten Felder."}]_vars

\* a second click has replaced the success message of the first submit by the
\* interim message
C21_Witness ==
    /\ formPc = "validating"
    /\ message = "Absenden wurde geklickt. Eingaben werden geprüft..."
    /\ submits = 2
    /\ successCalls = 1

\* C22: in the fetch section and in the axios section exactly one of the four
\* blocks (loading text, error text, card, hint) is rendered in every state;
\* loading and an error are never set together, and the card is never rendered
\* together with the error text
C22_OneBranch ==
    /\ Cardinality(Branches(data, isLoading, error)) = 1
    /\ Cardinality(Branches(apodFetch, isLoadingFetch, errorFetch)) = 1
    /\ ~(isLoading /\ error # NoError)
    /\ ~(isLoadingFetch /\ errorFetch # NoError)
    /\ ~({"card", "error"} \subseteq Branches(data, isLoading, error))
    /\ ~({"card", "error"} \subseteq Branches(apodFetch, isLoadingFetch, errorFetch))

\* the hook holds the data of one call and the error of another: only the
\* error text is rendered
C22_Witness ==
    /\ variant = "axios"
    /\ phase = "mounted"
    /\ data # NoData
    /\ error # NoError
    /\ Branches(data, isLoading, error) = {"error"}

\* C23: while a request of a variant is outstanding its reload button is
\* disabled, and a page driven by its mount load and its reload buttons has at
\* most one request of each variant in flight
C23_OneInFlight ==
    /\ (variant = "fetch" /\ phase = "mounted")
          => /\ PendingFetch # {} => ReloadDisabled(isLoadingFetch)
             /\ Cardinality(PendingFetch) <= 1
    /\ (variant = "axios" /\ phase = "mounted" /\ byPage)
          => /\ Pending # {} => ReloadDisabled(isLoading)
             /\ Cardinality(Pending) <= 1

\* the cells hold what the completion applied last has written: its payload
\* after a success, its message and no data after a failure
SettledBy(a, d, e) ==
    /\ a.st = "ok" => d = a.payload
    /\ a.st = "fail" => (e = a.msg /\ e # NoError /\ d = NoData)

\* C24: if every transport call eventually settles, then from some point on a
\* mounted hook (axios) or page (fetch) has no call outstanding, is not loading,
\* and holds the data or the error of the completion that was applied last
C24_EventuallySettled ==
    <>[](phase = "mounted" =>
           /\ ~isLoading /\ ~isLoadingFetch
           /\ Pending = {} /\ PendingFetch = {}
           /\ variant = "axios" =>
                 (lastApplied \in 1..Len(attempts)
                    /\ SettledBy(attempts[lastApplied], data, error))
           /\ variant = "fetch" =>
                 (lastAppliedFetch \in 1..Len(attemptsFetch)
                    /\ SettledBy(attemptsFetch[lastAppliedFetch], apodFetch, errorFetch)))

\* two calls have settled, the one started first last, and its payload stands
C24_Witness ==
    /\ variant = "axios"
    /\ phase = "mounted"
    /\ Len(attempts) = 2
    /\ Pending = {}
    /\ lastApplied = 1
    /\ ~isLoading
    /\ data = attempts[1].payload
    /\ data # NoData

\* C25: given the same clicks, the Counter and the uni-directional counter
\* hold the same count (the Counter counted from its initialValue), also when
\* several clicks are handled before the Counter renders again
C25_SameCount ==
    variant \in {"counter", "batch"} => count - initialValue = uniCount

\* C26: the store starts at 0 and its value is the sum of the deltas (+1, -1,
\* +n) of the actions dispatched; from its value any two actions give the same
\* result in either order, and increment and decrement undo each other in
\* either order
C26_SumOfDeltas ==
    /\ dispatched = 0 => value = 0
    /\ value = deltaSum
    /\ \A a, b \in ReduxActions :
          reducer(reducer(value, a), b) = reducer(reducer(value, b), a)
    /\ decrement(increment(value)) = value
    /\ increment(decrement(value)) = value

\* -1, +5, +1, -1 have been dispatched, in some order
C26_Witness ==
    /\ dispatched = 4
    /\ value = 4

\* C27: the theme is 'light' or 'dark', 'light' at the start, the other one
\* after every toggleTheme and so the same one after two; the wrapper has the
\* class themeLight exactly when the theme is 'light' and themeDark otherwise
C27_ThemeFlips ==
    /\ theme \in {"light", "dark"}
    /\ toggles = 0 => theme = "light"
    /\ theme = (IF toggles % 2 = 0 THEN "light" ELSE "dark")
    /\ Flip(Flip(theme)) = theme
    /\ Flip(theme) # theme
    /\ WrapperClass(theme) = (IF theme = "light" THEN "themeLight" ELSE "themeDark")

\* after three toggles the page is dark and rendered so
C27_Witness ==
    /\ toggles = 3
    /\ theme = "dark"
    /\ WrapperClass(theme) = "themeDark"
    /\ themeCall.made /\ themeCall.inside
    /\ themeCall.res.value.theme = "dark"

\* C28: a toggleTheme leaves the value of the store unchanged, and a
\* dispatched increment, decrement or incrementBy leaves the theme unchanged
C28_Independent ==
    [][/\ toggles' # toggles => (theme' # theme /\ value' = value)
       /\ dispatched' # dispatched => theme' = theme
       /\ value' # value => (dispatched' # dispatched /\ theme' = theme)
       /\ theme' # theme => (toggles' # toggles /\ value' = value)]_vars

\* the theme was toggled once and +5 dispatched once: both took effect
C28_Witness ==
    /\ toggles = 1
    /\ theme = "dark"
    /\ dispatched = 1
    /\ value = 5

\* the <h2> the route table and the book list promise for a path written
\* exactly as in the table
ExpectedHeading(segs) ==
    CASE segs = <<>> -> "Startseite"
      [] segs = <<"products">> -> "Produkte"
      [] segs = <<"products", "books">> -> "Bücher"
      [] Len(segs) = 3 /\ SubSeq(segs, 1, 2) = <<"products", "books">> ->
            IF \E k \in DOMAIN books : books[k].id = segs[3]
            THEN books[CHOOSE k \in DOMAIN books : books[k].id = segs[3]].title
            ELSE "Buch nicht gefunden"
      [] OTHER -> "Seite nicht gefunden"

\* the segments with the words of the route table in lower case; the segment
\* of the book id is left as it is
Fold(segs) == [k \in 1..Len(segs) |-> IF k <= 2 THEN Lower(segs[k]) ELSE segs[k]]

\* C29 as stated: every path renders exactly one page: '/', '/products',
\* '/products/books' and '/products/books/<id>' their own (the detail of the
\* book, or 'Buch nicht gefunden'), and every other path, as a string,
\* 'Seite nicht gefunden'
C29_EveryOtherPathNotFound ==
    /\ Cardinality(Rendered(location)) = 1
    /\ \A page \in Rendered(location) :
          page.heading = (IF location.slash THEN "Seite nicht gefunden"
                          ELSE ExpectedHeading(location.segs))

\* C29 amended: every path renders exactly one page, the one above for the
\* path taken without a trailing slash and with 'products' and 'books' in any
\* case of letters; every path that is still another one renders 'Seite
\* nicht gefunden'
C29_RouteResolution ==
    /\ Cardinality(Rendered(location)) = 1
    /\ \A page \in Rendered(location) :
          page.heading = ExpectedHeading(Fold(location.segs))

\* '/Products/books/x/' was entered: the book route matches and reports that
\* there is no such book
C29_Witness ==
    /\ variant = "routing"
    /\ location = [segs |-> <<"Products", "books", "x">>, slash |-> TRUE]
    /\ Rendered(location) = {[element |-> "BookDetailPage", heading |-> "Buch nicht gefunden"]}

\* C30: every Link on screen leads to a page other than 'Seite nicht
\* gefunden', every Link to a book to the detail of a book of the list, and
\* the start page and the book overview are Links on every page; so a page
\* reached by Links is never one of the two not-found pages
C30_LinksStayInside ==
    /\ \A target \in Links(location) : \A page \in Rendered(target) :
          /\ page.heading # "Seite nicht gefunden"
          /\ Len(target.segs) = 3
                => /\ \E k \in DOMAIN books : books[k].id = target.segs[3]
                   /\ page.heading # "Buch nicht gefunden"
    /\ Path(<<>>) \in Links(location)
    /\ Path(<<"products", "books">>) \in Links(location)
    /\ hops > 0 => \A page \in Rendered(location) :
                      page.heading \notin {"Seite nicht gefunden", "Buch nicht gefunden"}

\* three Links later the detail page of a book is on screen
C30_Witness ==
    /\ variant = "routing"
    /\ hops = 3
    /\ location = BookLink(books[2])
    /\ Rendered(location) = {[element |-> "BookDetailPage", heading |-> "React Hooks"]}
====
